---- MODULE Spec2Model ----
(***************************************************************************)
(* Tabula: a Wayland wallpaper renderer.                                   *)
(*                                                                         *)
(* The model follows one process from `run()` (main.rs) through startup    *)
(* (ProtocolStates::new, Window::new) into the blocking dispatch loop, and *)
(* every event handler of `State` (wayland/mod.rs) with the window and     *)
(* renderer code it calls (window.rs, renderer.rs, geometry.rs).           *)
(*                                                                         *)
(* Requests sent to the compositor and GPU calls are recorded, per         *)
(* handler, as the sequence of operations the handler issued (`trace`).    *)
(* A Rust panic (failed assert!/unwrap) ends the process: pc = "panicked". *)
(***************************************************************************)
EXTENDS Integers, Sequences, FiniteSets, TLC

(***************************************************************************)
(* Bounds of the model.                                                    *)
(***************************************************************************)
\* Largest width/height the compositor configures.
MaxDim == 2
\* Largest integer scale factor the compositor reports.
MaxFactor == 2
\* Number of events handled in one run.
MaxEvents == 4

(***************************************************************************)
(* Values.                                                                 *)
(***************************************************************************)
\* `scale: f64` is kept as a numerator over ScaleUnit (1.0 is ScaleUnit).
ScaleUnit == 4

Dims == 0..MaxDim
Sizes == [width : Dims, height : Dims]

Size(w, h) == [width |-> w, height |-> h]

\* Size::default()
DefaultSize == Size(0, 0)

\* Integer factors of wl_surface preferred_buffer_scale events.
IntFactors == 1..MaxFactor

\* Factors of fractional-scale events: 0.25, 1.0, 1.5.
FracScales == {1, 4, 6}

\* Globals that the code binds.
RequiredGlobals == {"zwlr_layer_shell_v1", "wl_compositor", "wp_viewporter"}
OptionalGlobals == {"wp_single_pixel_buffer_manager_v1",
                    "wp_fractional_scale_manager_v1"}
Globals == RequiredGlobals \cup OptionalGlobals

\* options.image: no path, a path that decodes, a path that fails to decode.
ImageOptions == {"none", "ok", "bad"}

\* image::ColorType of a decoded file: the three types UnloadedImage::new
\* keeps, and "Rgba8" for what it converts every other type to.
ColorTypes == {"L8", "La8", "Rgb8", "Rgba8"}

\* A decoded file: a 2x1 image of each colour type.
ImageFiles == {[color |-> c, width |-> 2, height |-> 1] : c \in ColorTypes}

\* No file is decoded.
NoImageFile == [color |-> "Rgba8", width |-> 0, height |-> 0]

\* options.color: the default "#000000" and one other colour, as <<r, g, b>>.
Colors == {<<0, 0, 0>>, <<255, 128, 0>>}

\* The colour no gl::ClearColor call has set yet.
NoColor == <<-1, -1, -1>>

\* Option<SizedRenderer>
NoSized == [some |-> FALSE, size |-> DefaultSize]
SomeSized(sz) == [some |-> TRUE, size |-> sz]

NoEvent == [kind |-> "none", a |-> 0, b |-> 0]

VARIABLES
    pc,              \* "init", "running", "exited", "panicked"
    exitCode,        \* process exit status, -1 while the process lives
    error,           \* Error variant returned by run(), "none" if none
    errorName,       \* the capability named by Error::WaylandProtocol
    connectOk,       \* the Wayland connection and registry can be set up
    eglOk,           \* the EGL display can be created
    globals,         \* globals advertised by the compositor
    options,         \* CLI options
    imageFile,       \* what the file at options.image decodes to
    protocol_states, \* ProtocolStates: which optional globals are bound
    windowCreated,   \* Window::new returned Ok
    size,            \* Window.size
    scale,           \* Window.scale
    spb_buffer,      \* Window.spb_buffer: 0 is None, else the buffer's id
    image,           \* Window.image: "none", "Unloaded", "Loaded"
    sized,           \* Renderer.sized
    terminated,      \* State.terminated
    inDispatch,      \* inside queue.blocking_dispatch
    buffers,         \* number of wl_buffers created
    attached,        \* buffer last attached to the surface, 0 if none
    destination,     \* last wp_viewport.set_destination
    damaged,         \* last wl_surface.damage rectangle
    physical,        \* last physical size handed to Renderer::draw
    textureFormat,   \* format of the texture uploaded, "none" before
    opaque,          \* last wl_surface.set_opaque_region rectangle
    ctxCreated,      \* number of EGL surface/context pairs created
    textures,        \* number of GL textures created
    clearColor,      \* colour of the last gl::ClearColor
    draws,           \* number of Window::draw calls
    trace,           \* requests and GPU calls issued by the last handler
    lastEv,          \* the event the last handler handled
    preSize,         \* Window.size before the last handler
    preScale,        \* Window.scale before the last handler
    sizeKnown,       \* a Configure with a size other than (0,0) was handled
    nEvents,         \* number of events handled
    fnArg,           \* input of the pure function under check
    fnResult,        \* its result
    fnDone           \* the function was applied

cfgVars == <<connectOk, eglOk, globals, options, imageFile>>
procVars == <<pc, exitCode, error, errorName>>
winVars == <<size, scale, spb_buffer, image, sized>>
surfVars == <<buffers, attached, destination, damaged, physical, opaque,
             ctxCreated, textures, textureFormat, clearColor, draws>>
histVars == <<lastEv, preSize, preScale, sizeKnown, nEvents>>
fnVars == <<fnArg, fnResult, fnDone>>
vars == <<cfgVars, procVars, protocol_states, windowCreated, winVars,
          terminated, inDispatch, surfVars, trace, histVars, fnVars>>

(***************************************************************************)
(* geometry.rs                                                             *)
(***************************************************************************)
\* A product that is truncated instead of rounded.
RoundScaled_truncating(x, sc) == (x * sc) \div ScaleUnit

\* (x as f64 * scale).round() as u32 for x >= 0 and scale = sc / ScaleUnit:
\* f64::round rounds half away from zero.
RoundScaled(x, sc) == (2 * x * sc + ScaleUnit) \div (2 * ScaleUnit)

\* impl Mul<f64> for Size
Mul(sz, sc) == Size(RoundScaled(sz.width, sc), RoundScaled(sz.height, sc))

(***************************************************************************)
(* renderer.rs                                                             *)
(***************************************************************************)
\* SizedRenderer::create_surface without its assert on the size.
SizedRenderer_create_surface_unasserted(sz) ==
    [ops |-> <<"create_context", "create_window_surface", "ctx_make_current",
               "set_swap_interval">>,
     panic |-> FALSE]

\* SizedRenderer::create_surface: the assert, then context, surface,
\* make_current and swap interval.
SizedRenderer_create_surface(sz) ==
    IF ~(sz.width > 0 /\ sz.height > 0)
    THEN [ops |-> <<>>, panic |-> TRUE]
    ELSE [ops |-> <<"create_context", "create_window_surface",
                    "ctx_make_current", "set_swap_interval">>,
          panic |-> FALSE]

\* SizedRenderer::new that sets the program up before the context exists.
SizedRenderer_new_program_first(sz) ==
    LET c == SizedRenderer_create_surface(sz) IN
    IF c.panic
    THEN [sized |-> NoSized, ops |-> <<"create_program">> \o c.ops,
          panic |-> TRUE]
    ELSE [sized |-> SomeSized(sz), ops |-> <<"create_program">> \o c.ops,
          panic |-> FALSE]

\* SizedRenderer::new: create_surface, then create_program.
SizedRenderer_new(sz) ==
    LET c == SizedRenderer_create_surface(sz) IN
    IF c.panic
    THEN [sized |-> NoSized, ops |-> c.ops, panic |-> TRUE]
    ELSE [sized |-> SomeSized(sz), ops |-> c.ops \o <<"create_program">>,
          panic |-> FALSE]

\* SizedRenderer::resize that resizes the surface and forgets to store the
\* new size.
SizedRenderer_resize_keep_size(szd, sz) ==
    IF szd.size = sz
    THEN [sized |-> szd, ops |-> <<>>, panic |-> FALSE]
    ELSE IF sz.width = 0 \/ sz.height = 0
    THEN [sized |-> szd, ops |-> <<>>, panic |-> TRUE]
    ELSE [sized |-> szd, ops |-> <<"egl_resize">>, panic |-> FALSE]

\* SizedRenderer::resize: nothing for the stored size; NonZeroU32::new(0)
\* .unwrap() panics before the EGL surface is resized.
SizedRenderer_resize(szd, sz) ==
    IF szd.size = sz
    THEN [sized |-> szd, ops |-> <<>>, panic |-> FALSE]
    ELSE IF sz.width = 0 \/ sz.height = 0
    THEN [sized |-> szd, ops |-> <<>>, panic |-> TRUE]
    ELSE [sized |-> SomeSized(sz), ops |-> <<"egl_resize">>, panic |-> FALSE]

\* Renderer::sized that creates the sized state anew on a size change.
Renderer_sized_recreate(szd, sz) ==
    IF szd.some /\ szd.size = sz
    THEN [sized |-> szd, ops |-> <<>>, panic |-> FALSE]
    ELSE SizedRenderer_new(sz)

\* Renderer::sized: resize the sized state, or create it.
Renderer_sized(szd, sz) ==
    IF szd.some THEN SizedRenderer_resize(szd, sz) ELSE SizedRenderer_new(sz)

\* Renderer::draw_texture_at: unreachable!() without sized state.
Renderer_draw_texture_at(szd) ==
    IF szd.some
    THEN [ops |-> <<"uniform_matrix", "uniform_position", "bind_texture",
                    "draw_arrays">>,
          panic |-> FALSE]
    ELSE [ops |-> <<"unreachable">>, panic |-> TRUE]

\* Texture::new_with_format: the assert on the buffer length, then the upload.
Texture_new_with_format(len, width, height, color_format) ==
    IF len # width * height * 4
    THEN [ops |-> <<>>, panic |-> TRUE, format |-> "none"]
    ELSE [ops |-> <<"texture_new">>, panic |-> FALSE, format |-> color_format]

(***************************************************************************)
(* window.rs                                                               *)
(***************************************************************************)
\* Bytes per pixel of the raw buffer UnloadedImage::new keeps.
BytesPerPixel(color) ==
    CASE color = "La8" -> 2
      [] color = "L8" -> 1
      [] color = "Rgb8" -> 3
      [] OTHER -> 4

\* gl_format that UnloadedImage::new pairs with the buffer.
GlFormat(color) ==
    CASE color = "La8" -> "LUMINANCE_ALPHA"
      [] color = "L8" -> "LUMINANCE"
      [] color = "Rgb8" -> "RGB"
      [] OTHER -> "RGBA"

\* The UnloadedImage of a decoded file; bytes is the buffer's length.
UnloadedImage_of(file) ==
    [bytes |-> file.width * file.height * BytesPerPixel(file.color),
     width |-> file.width, height |-> file.height,
     gl_format |-> GlFormat(file.color)]

\* Image::texture: load the texture if the image is Unloaded, then match
\* on the image: the texture if it is Loaded, unreachable!() otherwise. The
\* call Texture::new(bytes, width, height, gl_format) has the four
\* parameters of Texture::new_with_format.
Image_texture(img) ==
    LET Matched(r) ==
            IF r.panic \/ r.image = "Loaded"
            THEN r
            ELSE [image |-> r.image, ops |-> r.ops \o <<"unreachable">>,
                  panic |-> TRUE, format |-> r.format]
        Loaded(t) ==
            IF t.panic
            THEN [image |-> img, ops |-> t.ops, panic |-> TRUE,
                  format |-> textureFormat]
            ELSE [image |-> "Loaded", ops |-> t.ops, panic |-> FALSE,
                  format |-> t.format]
        New(u) ==
            Loaded(Texture_new_with_format(u.bytes, u.width, u.height,
                                           u.gl_format))
    IN IF img = "Unloaded"
       THEN Matched(New(UnloadedImage_of(imageFile)))
       ELSE Matched([image |-> img, ops |-> <<>>, panic |-> FALSE,
                     format |-> textureFormat])

\* Window::gl_render that returns after the clear even with an image.
Window_gl_render_clear_only(szd, img) ==
    [image |-> img, ops |-> <<"clear_color", "clear">>, panic |-> FALSE,
     format |-> textureFormat]

\* Window::gl_render that draws the texture with a renderer whose sized
\* state is absent.
Window_gl_render_unsized(szd, img) ==
    LET clear == <<"clear_color", "clear">> IN
    IF img = "none"
    THEN [image |-> img, ops |-> clear, panic |-> FALSE,
          format |-> textureFormat]
    ELSE LET TexturedUnsized(t, d) ==
                 IF t.panic
                 THEN [image |-> t.image, ops |-> clear \o t.ops,
                       panic |-> TRUE, format |-> t.format]
                 ELSE [image |-> t.image, ops |-> clear \o t.ops \o d.ops,
                       panic |-> d.panic, format |-> t.format]
         IN TexturedUnsized(Image_texture(img),
                            Renderer_draw_texture_at(NoSized))

\* Window::gl_render: clear to the background colour, then draw the image
\* if there is one.
Window_gl_render(szd, img) ==
    LET clear == <<"clear_color", "clear">> IN
    IF img = "none"
    THEN [image |-> img, ops |-> clear, panic |-> FALSE,
          format |-> textureFormat]
    ELSE LET Textured(t, d) ==
                 IF t.panic
                 THEN [image |-> t.image, ops |-> clear \o t.ops,
                       panic |-> TRUE, format |-> t.format]
                 ELSE [image |-> t.image, ops |-> clear \o t.ops \o d.ops,
                       panic |-> d.panic, format |-> t.format]
         IN Textured(Image_texture(img), Renderer_draw_texture_at(szd))

\* Renderer::draw with Window::gl_render as its closure.
Renderer_draw(szd, sz, img) ==
    LET Swapped(g, pre, s2) ==
            IF s2.panic
            THEN [sized |-> s2.sized, image |-> g.image,
                  ops |-> pre \o <<"flush">> \o s2.ops, panic |-> TRUE,
                  format |-> g.format]
            ELSE [sized |-> s2.sized, image |-> g.image,
                  ops |-> pre \o <<"flush">> \o s2.ops \o <<"swap_buffers">>,
                  panic |-> FALSE, format |-> g.format]
        Rendered(s1, g, pre) ==
            IF g.panic
            THEN [sized |-> s1.sized, image |-> g.image, ops |-> pre,
                  panic |-> TRUE, format |-> g.format]
            ELSE Swapped(g, pre, Renderer_sized(s1.sized, sz))
        Current(s1, g) ==
            Rendered(s1, g,
                     s1.ops \o <<"make_current", "gl_viewport">> \o g.ops)
        Sized(s1) ==
            IF s1.panic
            THEN [sized |-> s1.sized, image |-> img, ops |-> s1.ops,
                  panic |-> TRUE, format |-> textureFormat]
            ELSE Current(s1, Window_gl_render(s1.sized, img))
    IN Sized(Renderer_sized(szd, sz))

\* Window::draw that renders with the GPU whether or not there is a buffer.
Window_draw_result_gpu_only(sz, sc, spb, szd, img) ==
    LET GpuCommitted(r) ==
            [sized |-> r.sized, image |-> r.image, attach |-> attached,
             ops |-> IF r.panic THEN <<"set_destination", "damage">> \o r.ops
                     ELSE <<"set_destination", "damage">> \o r.ops
                          \o <<"commit">>,
             panic |-> r.panic, gpu |-> TRUE, format |-> r.format]
    IN GpuCommitted(Renderer_draw(szd, Mul(sz, sc), img))

\* Window::draw for logical size sz, scale sc, as a result record:
\* the render path is the attach of the flat-colour buffer if there is one,
\* Renderer::draw with the physical size otherwise; then the commit.
Window_draw_result(sz, sc, spb, szd, img) ==
    LET head == <<"set_destination", "damage">> IN
    IF spb # 0
    THEN [sized |-> szd, image |-> img, attach |-> spb,
          ops |-> head \o <<"attach", "commit">>, panic |-> FALSE,
          gpu |-> FALSE, format |-> textureFormat]
    ELSE LET Committed(r) ==
                 [sized |-> r.sized, image |-> r.image, attach |-> attached,
                  ops |-> IF r.panic THEN head \o r.ops
                          ELSE head \o r.ops \o <<"commit">>,
                  panic |-> r.panic, gpu |-> TRUE, format |-> r.format]
         IN Committed(Renderer_draw(szd, Mul(sz, sc), img))

\* Number of occurrences of op in a sequence of operations.
Count(ops, op) == Cardinality({i \in 1..Len(ops) : ops[i] = op})

\* Window::draw that takes the flat-colour buffer out of the window.
Window_draw_take_buffer(pre, sz, sc) ==
    \E r \in {Window_draw_result(sz, sc, spb_buffer, sized, image)} :
    /\ sized' = r.sized
    /\ image' = r.image
    /\ attached' = r.attach
    /\ destination' = sz
    /\ damaged' = sz
    /\ physical' = (IF r.gpu THEN Mul(sz, sc) ELSE physical)
    /\ textureFormat' = r.format
    /\ trace' = pre \o r.ops
    /\ draws' = draws + 1
    /\ ctxCreated' = ctxCreated + Count(r.ops, "create_context")
    /\ textures' = textures + Count(r.ops, "texture_new")
    /\ clearColor' = IF Count(r.ops, "clear_color") > 0 THEN options.color
                     ELSE clearColor
    /\ IF r.panic
       THEN pc' = "panicked" /\ exitCode' = 101
       ELSE UNCHANGED <<pc, exitCode>>
    /\ spb_buffer' = 0
    /\ UNCHANGED <<buffers, error, errorName>>

\* Window::draw, applied to the window with logical size sz and scale sc,
\* after the requests pre of its caller.
Window_draw(pre, sz, sc) ==
    \E r \in {Window_draw_result(sz, sc, spb_buffer, sized, image)} :
    /\ sized' = r.sized
    /\ image' = r.image
    /\ attached' = r.attach
    /\ destination' = sz
    /\ damaged' = sz
    /\ physical' = (IF r.gpu THEN Mul(sz, sc) ELSE physical)
    /\ textureFormat' = r.format
    /\ trace' = pre \o r.ops
    /\ draws' = draws + 1
    /\ ctxCreated' = ctxCreated + Count(r.ops, "create_context")
    /\ textures' = textures + Count(r.ops, "texture_new")
    /\ clearColor' = IF Count(r.ops, "clear_color") > 0 THEN options.color
                     ELSE clearColor
    /\ IF r.panic
       THEN pc' = "panicked" /\ exitCode' = 101
       ELSE UNCHANGED <<pc, exitCode>>
    /\ UNCHANGED <<buffers, spb_buffer, error, errorName>>

\* A handler that does not draw.
NoDraw ==
    /\ trace' = <<>>
    /\ UNCHANGED <<sized, image, attached, destination, damaged, physical,
                   textureFormat, draws, ctxCreated, textures, clearColor, pc,
                   exitCode, buffers, spb_buffer, error, errorName>>

\* Window::set_size without the early return for the stored size.
Window_set_size_always(sz) ==
    /\ size' = sz
    /\ opaque' = sz
    /\ UNCHANGED scale
    /\ Window_draw(<<"region_add", "set_opaque_region">>, sz, scale)

\* Window::set_size that leaves the opaque region alone.
Window_set_size_no_region(sz) ==
    IF size = sz
    THEN NoDraw /\ UNCHANGED <<size, scale, opaque>>
    ELSE /\ size' = sz
         /\ UNCHANGED <<scale, opaque>>
         /\ Window_draw(<<>>, sz, scale)

\* Window::set_size
Window_set_size(sz) ==
    IF size = sz
    THEN NoDraw /\ UNCHANGED <<size, scale, opaque>>
    ELSE /\ size' = sz
         /\ opaque' = sz
         /\ UNCHANGED scale
         /\ Window_draw(<<"region_add", "set_opaque_region">>, sz, scale)

\* Window::set_scale_factor that redraws whatever the size is.
Window_set_scale_factor_always_draws(sc) ==
    IF scale = sc
    THEN NoDraw /\ UNCHANGED <<size, scale, opaque>>
    ELSE /\ scale' = sc
         /\ UNCHANGED <<size, opaque>>
         /\ Window_draw(<<>>, size, sc)

\* Window::set_scale_factor
Window_set_scale_factor(sc) ==
    IF scale = sc
    THEN NoDraw /\ UNCHANGED <<size, scale, opaque>>
    ELSE /\ scale' = sc
         /\ UNCHANGED <<size, opaque>>
         /\ IF size # DefaultSize THEN Window_draw(<<>>, size, sc)
            ELSE NoDraw

\* UnloadedImage::new: Ok exactly when the file opens and decodes.
UnloadedImage_new(path) == path = "ok"

\* Window::new that falls back to no image when the image fails to load.
Window_new_image_fallback(ps, opts, egl) ==
    LET setup == <<"set_anchor", "set_exclusive_zone", "set_size", "commit">>
        loaded == opts.image # "none" /\ UnloadedImage_new(opts.image)
    IN IF ~egl
       THEN [ok |-> FALSE, error |-> "Glutin", image |-> "none",
             spb_buffer |-> 0, ops |-> <<>>]
       ELSE [ok |-> TRUE, error |-> "none",
             image |-> IF loaded THEN "Unloaded" ELSE "none",
             spb_buffer |-> IF ps.single_pixel_buffer /\ ~loaded
                            THEN 1 ELSE 0,
             ops |-> setup]

\* Window::new: EGL display, surface and layer surface with the initial
\* commit, renderer, image, flat-colour buffer.
Window_new(ps, opts, egl) ==
    LET setup == <<"set_anchor", "set_exclusive_zone", "set_size", "commit">>
        fail(e, ops) == [ok |-> FALSE, error |-> e, image |-> "none",
                         spb_buffer |-> 0, ops |-> ops]
    IN IF ~egl THEN fail("Glutin", <<>>)
       ELSE IF opts.image # "none" /\ ~UnloadedImage_new(opts.image)
       THEN fail("Image", setup)
       ELSE [ok |-> TRUE, error |-> "none",
             image |-> IF opts.image = "none" THEN "none" ELSE "Unloaded",
             spb_buffer |-> IF ps.single_pixel_buffer /\ opts.image = "none"
                            THEN 1 ELSE 0,
             ops |-> setup]

(***************************************************************************)
(* wayland/mod.rs                                                          *)
(***************************************************************************)
\* ProtocolStates::new that binds the viewporter like an optional global.
ProtocolStates_new_viewporter_optional(g) ==
    LET fail(n) == [ok |-> FALSE, name |-> n, single_pixel_buffer |-> FALSE,
                    fractional_scale |-> FALSE]
    IN IF "zwlr_layer_shell_v1" \notin g THEN fail("wlr_layer_shell")
       ELSE IF "wl_compositor" \notin g THEN fail("wl_compositor")
       ELSE [ok |-> TRUE, name |-> "",
             single_pixel_buffer |-> "wp_single_pixel_buffer_manager_v1" \in g,
             fractional_scale |-> "wp_fractional_scale_manager_v1" \in g]

\* ProtocolStates::new: the optional globals resolve to present or absent,
\* the required ones fail with the name of the one that could not be bound.
ProtocolStates_new(g) ==
    LET fail(n) == [ok |-> FALSE, name |-> n, single_pixel_buffer |-> FALSE,
                    fractional_scale |-> FALSE]
    IN IF "zwlr_layer_shell_v1" \notin g THEN fail("wlr_layer_shell")
       ELSE IF "wl_compositor" \notin g THEN fail("wl_compositor")
       ELSE IF "wp_viewporter" \notin g THEN fail("wp_viewporter")
       ELSE [ok |-> TRUE, name |-> "",
             single_pixel_buffer |-> "wp_single_pixel_buffer_manager_v1" \in g,
             fractional_scale |-> "wp_fractional_scale_manager_v1" \in g]

NoProtocolStates == [single_pixel_buffer |-> FALSE, fractional_scale |-> FALSE]

(***************************************************************************)
(* main.rs                                                                 *)
(***************************************************************************)
\* State::new: ProtocolStates::new, then Window::new.
State_new(g, opts, egl) ==
    LET p == ProtocolStates_new(g)
        ps == [single_pixel_buffer |-> p.single_pixel_buffer,
               fractional_scale |-> p.fractional_scale]
    IN IF ~p.ok
       THEN [ok |-> FALSE, error |-> "WaylandProtocol", name |-> p.name,
             ps |-> NoProtocolStates, image |-> "none", spb_buffer |-> 0,
             ops |-> <<>>]
       ELSE LET w == Window_new(ps, opts, egl) IN
            [ok |-> w.ok, error |-> w.error, name |-> "",
             ps |-> IF w.ok THEN ps ELSE NoProtocolStates,
             image |-> w.image, spb_buffer |-> w.spb_buffer, ops |-> w.ops]

Init ==
    /\ connectOk \in BOOLEAN
    /\ eglOk \in BOOLEAN
    /\ globals \in SUBSET Globals
    /\ connectOk = FALSE => globals = {}
    /\ options \in [image : ImageOptions, color : Colors]
    /\ imageFile \in ImageFiles \cup {NoImageFile}
    /\ imageFile = NoImageFile <=> options.image # "ok"
    /\ pc = "init"
    /\ exitCode = -1
    /\ error = "none"
    /\ errorName = ""
    /\ protocol_states = NoProtocolStates
    /\ windowCreated = FALSE
    /\ size = DefaultSize
    /\ scale = ScaleUnit
    /\ spb_buffer = 0
    /\ image = "none"
    /\ sized = NoSized
    /\ terminated = FALSE
    /\ inDispatch = FALSE
    /\ buffers = 0
    /\ attached = 0
    /\ destination = DefaultSize
    /\ damaged = DefaultSize
    /\ physical = DefaultSize
    /\ textureFormat = "none"
    /\ opaque = DefaultSize
    /\ ctxCreated = 0
    /\ textures = 0
    /\ clearColor = NoColor
    /\ draws = 0
    /\ trace = <<>>
    /\ lastEv = NoEvent
    /\ preSize = DefaultSize
    /\ preScale = ScaleUnit
    /\ sizeKnown = FALSE
    /\ nEvents = 0
    /\ fnArg = <<>>
    /\ fnResult = <<>>
    /\ fnDone = FALSE

\* run() up to the event loop, and main()'s exit(1) on an error.
Startup ==
    /\ pc = "init"
    /\ IF ~connectOk
       THEN /\ pc' = "exited" /\ exitCode' = 1
            /\ error' = "WaylandConnect"
            /\ UNCHANGED <<errorName, protocol_states, windowCreated, image,
                           spb_buffer, buffers, trace>>
       ELSE LET s == State_new(globals, options, eglOk) IN
            /\ pc' = IF s.ok THEN "running" ELSE "exited"
            /\ exitCode' = IF s.ok THEN -1 ELSE 1
            /\ error' = s.error
            /\ errorName' = s.name
            /\ protocol_states' = s.ps
            /\ windowCreated' = s.ok
            /\ image' = s.image
            /\ spb_buffer' = s.spb_buffer
            /\ buffers' = IF s.spb_buffer # 0 THEN 1 ELSE 0
            /\ trace' = s.ops
    /\ UNCHANGED <<cfgVars, size, scale, sized, terminated, inDispatch,
                   attached, destination, damaged, physical, textureFormat,
                   opaque, ctxCreated, textures, clearColor, draws, histVars,
                   fnVars>>

\* while !state.terminated { queue.blocking_dispatch(..)? }: enter the call.
BlockingDispatch ==
    /\ pc = "running" /\ ~inDispatch /\ ~terminated
    /\ inDispatch' = TRUE
    /\ UNCHANGED <<cfgVars, procVars, protocol_states, windowCreated, winVars,
                   terminated, surfVars, trace, histVars, fnVars>>

\* blocking_dispatch returns Ok after the pending events were handled.
DispatchReturn ==
    /\ pc = "running" /\ inDispatch
    /\ inDispatch' = FALSE
    /\ UNCHANGED <<cfgVars, procVars, protocol_states, windowCreated, winVars,
                   terminated, surfVars, trace, histVars, fnVars>>

\* blocking_dispatch returns Err: run() returns it, main() exits with 1.
DispatchError ==
    /\ pc = "running" /\ inDispatch
    /\ inDispatch' = FALSE
    /\ pc' = "exited" /\ exitCode' = 1 /\ error' = "WaylandDispatch"
    /\ UNCHANGED <<cfgVars, errorName, protocol_states, windowCreated, winVars,
                   terminated, surfVars, trace, histVars, fnVars>>

\* The loop condition fails: run() returns Ok(()), the process exits with 0.
LoopExit ==
    /\ pc = "running" /\ ~inDispatch /\ terminated
    /\ pc' = "exited" /\ exitCode' = 0
    /\ UNCHANGED <<cfgVars, error, errorName, protocol_states, windowCreated,
                   winVars, terminated, inDispatch, surfVars, trace, histVars,
                   fnVars>>

\* An event is delivered to its handler inside blocking_dispatch.
Handling == pc = "running" /\ inDispatch /\ nEvents < MaxEvents

Record(ev) ==
    /\ lastEv' = ev
    /\ preSize' = size
    /\ preScale' = scale
    /\ sizeKnown' = (sizeKnown \/ (ev.kind = "configure" /\ Size(ev.a, ev.b) # DefaultSize))
    /\ nEvents' = nEvents + 1
    /\ UNCHANGED <<cfgVars, protocol_states, windowCreated, inDispatch, fnVars>>

\* LayerShellHandler::configure
LayerShellHandler_configure(new_size) ==
    /\ Window_set_size(new_size)
    /\ UNCHANGED terminated

\* LayerShellHandler::closed
LayerShellHandler_closed ==
    /\ terminated' = TRUE
    /\ NoDraw
    /\ UNCHANGED <<size, scale, opaque>>

\* The integer handler without the check for the fractional-scale manager.
CompositorHandler_scale_factor_changed_unchecked(factor) ==
    /\ Window_set_scale_factor(factor * ScaleUnit)
    /\ UNCHANGED terminated

\* CompositorHandler::scale_factor_changed (integer factor)
CompositorHandler_scale_factor_changed(factor) ==
    /\ IF ~protocol_states.fractional_scale
       THEN Window_set_scale_factor(factor * ScaleUnit)
       ELSE NoDraw /\ UNCHANGED <<size, scale, opaque>>
    /\ UNCHANGED terminated

\* CompositorHandler::frame
CompositorHandler_frame ==
    /\ Window_draw(<<>>, size, scale)
    /\ UNCHANGED <<size, scale, opaque, terminated>>

\* FractionalScaleHandler::scale_factor_changed
FractionalScaleHandler_scale_factor_changed(factor) ==
    /\ Window_set_scale_factor(factor)
    /\ UNCHANGED terminated

Configure ==
    \E sz \in Sizes :
        /\ Handling
        /\ LayerShellHandler_configure(sz)
        /\ Record([kind |-> "configure", a |-> sz.width, b |-> sz.height])

Closed ==
    /\ Handling
    /\ LayerShellHandler_closed
    /\ Record([kind |-> "closed", a |-> 0, b |-> 0])

ScaleFactorChanged ==
    \E f \in IntFactors :
        /\ Handling
        /\ CompositorHandler_scale_factor_changed(f)
        /\ Record([kind |-> "scale", a |-> f, b |-> 0])

\* Fractional-scale events exist only for a surface whose fractional-scale
\* object was created, which Window::new does when the manager is bound.
FractionalScaleChanged ==
    \E f \in FracScales :
        /\ Handling
        /\ protocol_states.fractional_scale
        /\ FractionalScaleHandler_scale_factor_changed(f)
        /\ Record([kind |-> "fractional_scale", a |-> f, b |-> 0])

\* The handler is installed although Window never requests a frame callback.
Frame ==
    /\ Handling
    /\ CompositorHandler_frame
    /\ Record([kind |-> "frame", a |-> 0, b |-> 0])

Next ==
    \/ Startup
    \/ BlockingDispatch
    \/ DispatchReturn
    \/ DispatchError
    \/ LoopExit
    \/ Configure
    \/ Closed
    \/ ScaleFactorChanged
    \/ FractionalScaleChanged
    \/ Frame

Spec == Init /\ [][Next]_vars

(***************************************************************************)
(* Vocabulary of the properties.                                           *)
(***************************************************************************)
\* Number of Window::draw calls a handler made: each starts with one
\* set_destination.
DrawsIn(ops) == Count(ops, "set_destination")
CommitsIn(ops) == Count(ops, "commit")

\* The step is the handling of one event.
HandlerStep == nEvents' = nEvents + 1

\* Operations that reach the GPU (EGL or GL).
GpuOps == {"create_context", "create_window_surface", "ctx_make_current",
           "set_swap_interval", "create_program", "egl_resize",
           "make_current", "gl_viewport", "clear_color", "clear",
           "texture_new", "uniform_matrix", "uniform_position",
           "bind_texture", "draw_arrays", "flush", "swap_buffers"}

GpuOpsIn(ops) == {i \in 1..Len(ops) : ops[i] \in GpuOps}

\* The flat-colour capability is advertised and no image is configured.
FlatColorPath ==
    /\ windowCreated
    /\ "wp_single_pixel_buffer_manager_v1" \in globals
    /\ options.image = "none"

GpuPath ==
    /\ windowCreated
    /\ ~("wp_single_pixel_buffer_manager_v1" \in globals /\ options.image = "none")

\* The event named by lastEv is a notification that set_size or
\* set_scale_factor honours.
ScaleKinds == {"scale", "fractional_scale"}
EventScale(ev) == IF ev.kind = "scale" THEN ev.a * ScaleUnit ELSE ev.a
Honoured(ev) ==
    ev.kind = "fractional_scale" \/ ~protocol_states.fractional_scale

\* The step handles the same Configure or scale notification as the
\* handler before it.
SameTwice ==
    /\ HandlerStep
    /\ lastEv' = lastEv
    /\ lastEv.kind \in {"configure"} \cup ScaleKinds

\* The first of two equal notifications changed the stored value in a state
\* where the change redraws.
FirstRedraws ==
    IF lastEv.kind = "configure"
    THEN preSize # Size(lastEv.a, lastEv.b)
    ELSE Honoured(lastEv) /\ preScale # EventScale(lastEv)
         /\ size # DefaultSize

(***************************************************************************)
(* C1 (as stated): handling Configure twice in a row with the same size,   *)
(* or a scale notification twice in a row with the same factor, produces   *)
(* exactly one redraw and one commit in total, from any reachable state.   *)
(***************************************************************************)
C1_ExactlyOneRedraw ==
    [][SameTwice =>
          /\ DrawsIn(trace) + DrawsIn(trace') = 1
          /\ CommitsIn(trace) + CommitsIn(trace') = 1]_vars

(***************************************************************************)
(* C1 (amended): the second of two equal Configure or scale notifications  *)
(* in a row never redraws and changes nothing of the window; the pair      *)
(* produces exactly one redraw and commit when the first one changes the   *)
(* stored size, or changes the stored scale while it is honoured and a     *)
(* size is known, and no redraw otherwise.                                 *)
(***************************************************************************)
C1_SecondIsNoOp ==
    [][SameTwice =>
          /\ DrawsIn(trace') = 0
          /\ CommitsIn(trace') = 0
          /\ UNCHANGED <<winVars, surfVars, opaque>>
          /\ DrawsIn(trace) = (IF FirstRedraws THEN 1 ELSE 0)
          /\ CommitsIn(trace) = DrawsIn(trace)]_vars

\* Two events were handled, Configure(s) twice for a size s other than
\* (0,0): the first drew, the second did not.
C1_Witness ==
    /\ nEvents = 2
    /\ lastEv.kind = "configure"
    /\ Size(lastEv.a, lastEv.b) = size
    /\ preSize = size
    /\ size # DefaultSize
    /\ draws = 1
    /\ DrawsIn(trace) = 0

(***************************************************************************)
(* C2: with the fractional-scale manager bound, an integer scale-factor    *)
(* event changes no field of the window, sends no request and does not     *)
(* redraw; only fractional-scale events change the stored scale.           *)
(***************************************************************************)
C2_IntegerScaleIgnored ==
    /\ [][(protocol_states.fractional_scale /\ HandlerStep
           /\ lastEv'.kind = "scale") =>
              /\ UNCHANGED <<winVars, surfVars, terminated, pc>>
              /\ trace' = <<>>]_vars
    /\ [][(protocol_states.fractional_scale /\ scale' # scale) =>
              (HandlerStep /\ lastEv'.kind = "fractional_scale")]_vars

\* An integer factor other than the stored scale was handled in fractional
\* mode with a size known: it would have redrawn, and did not.
C2_Witness ==
    /\ protocol_states.fractional_scale
    /\ lastEv.kind = "scale"
    /\ EventScale(lastEv) # scale
    /\ size # DefaultSize
    /\ trace = <<>>
    /\ pc = "running"

(***************************************************************************)
(* C3: on the flat-colour path no redraw reaches the GPU: Renderer::draw   *)
(* is never called, the renderer's sized state stays absent, and every     *)
(* redraw attaches the one buffer created at construction.                 *)
(***************************************************************************)
C3_FlatColorNoGpu ==
    FlatColorPath =>
        /\ GpuOpsIn(trace) = {}
        /\ ~sized.some
        /\ ctxCreated = 0
        /\ textures = 0
        /\ clearColor = NoColor
        /\ buffers = 1
        /\ spb_buffer = 1
        /\ pc # "panicked"
        /\ Count(trace, "attach") = DrawsIn(trace)
        /\ nEvents > 0 => CommitsIn(trace) = DrawsIn(trace)
        /\ draws > 0 => attached = spb_buffer

\* Several redraws on the flat-colour path, the last by this handler.
C3_Witness ==
    /\ FlatColorPath
    /\ draws >= 2
    /\ DrawsIn(trace) = 1
    /\ attached = 1

\* Position of the first occurrence of op in ops, 0 if there is none.
Pos(ops, op) ==
    IF \E i \in 1..Len(ops) : ops[i] = op
    THEN CHOOSE i \in 1..Len(ops) :
             ops[i] = op /\ \A j \in 1..(i - 1) : ops[j] # op
    ELSE 0

\* The last handler called Window::draw, and the draw reached its commit.
Redrawn == nEvents > 0 /\ DrawsIn(trace) = 1 /\ CommitsIn(trace) = 1

(***************************************************************************)
(* C4: on the GPU path every redraw goes through Renderer::draw and never  *)
(* attaches a buffer; inside Renderer::draw the clear to the configured    *)
(* colour is the first drawing command, and a textured draw follows it if  *)
(* and only if an image is configured.                                     *)
(***************************************************************************)
C4_GpuPathRedraw ==
    (GpuPath /\ nEvents > 0 /\ DrawsIn(trace) = 1) =>
        /\ Count(trace, "attach") = 0
        /\ Count(trace, "draw_arrays") > 0 =>
               /\ options.image # "none"
               /\ Pos(trace, "clear") > 0
               /\ Pos(trace, "clear") < Pos(trace, "draw_arrays")
        /\ Redrawn =>
               /\ Count(trace, "make_current") = 1
               /\ Count(trace, "swap_buffers") = 1
               /\ Pos(trace, "clear_color") = Pos(trace, "gl_viewport") + 1
               /\ Pos(trace, "clear") = Pos(trace, "clear_color") + 1
               /\ Pos(trace, "make_current") < Pos(trace, "clear_color")
               /\ Pos(trace, "clear") < Pos(trace, "flush")
               /\ clearColor = options.color
               /\ Count(trace, "draw_arrays")
                      = (IF options.image = "none" THEN 0 ELSE 1)

\* A redraw with an image and a colour other than the default.
C4_Witness ==
    /\ GpuPath
    /\ Redrawn
    /\ options.image = "ok"
    /\ options.color # <<0, 0, 0>>
    /\ Count(trace, "draw_arrays") = 1
    /\ draws >= 2

(***************************************************************************)
(* C5: once the renderer is Sized, every completed Renderer::draw leaves   *)
(* the stored size equal to the size it was called with, resizes exactly   *)
(* when that size differs from the stored one, and no step ever creates a  *)
(* second EGL surface/context or drops the sized state.                    *)
(***************************************************************************)
C5_ResizeInPlace ==
    /\ [][sized.some =>
              /\ sized'.some
              /\ ctxCreated' = ctxCreated
              /\ ctxCreated = 1]_vars
    /\ [][(sized.some /\ HandlerStep /\ Count(trace', "swap_buffers") = 1) =>
              /\ sized'.size = Mul(size', scale')
              /\ Count(trace', "create_context") = 0
              /\ Count(trace', "egl_resize")
                     = (IF sized'.size = sized.size THEN 0 ELSE 1)]_vars

\* Three redraws on the GPU path, the third a Configure that resized the
\* one context from a different size.
C5_Witness ==
    /\ GpuPath
    /\ nEvents = 3
    /\ draws = 3
    /\ lastEv.kind = "configure"
    /\ Count(trace, "egl_resize") = 1
    /\ Count(trace, "swap_buffers") = 1
    /\ sized.some
    /\ sized.size = Mul(size, scale)
    /\ preSize.width < size.width
    /\ ctxCreated = 1

(***************************************************************************)
(* C6: before a Configure with a size has been handled the renderer's      *)
(* sized state (EGL surface and context) does not exist, whatever frame    *)
(* and scale events were handled first; it is created at most once.        *)
(***************************************************************************)
C6_NoContextBeforeConfigure ==
    /\ ~sizeKnown => (~sized.some /\ ctxCreated = 0 /\ GpuOpsIn(trace) = {})
    /\ ctxCreated <= 1
    /\ sized.some <=> ctxCreated = 1

\* On the GPU path a scale event changed the scale before any size was
\* known, and the process runs on without a context.
C6_Witness ==
    /\ GpuPath
    /\ ~sizeKnown
    /\ lastEv.kind \in ScaleKinds
    /\ scale # ScaleUnit
    /\ pc = "running"
    /\ ~sized.some

\* The global that the name in Error::WaylandProtocol stands for.
GlobalOfName(n) ==
    CASE n = "wlr_layer_shell" -> "zwlr_layer_shell_v1"
      [] n = "wl_compositor" -> "wl_compositor"
      [] n = "wp_viewporter" -> "wp_viewporter"
      [] OTHER -> "unknown"

\* run() got as far as ProtocolStates::new.
Negotiated == pc # "init" /\ connectOk

(***************************************************************************)
(* C7: startup succeeds only if the layer-shell, compositor and viewporter *)
(* globals are all advertised; if one is absent, ProtocolStates::new fails *)
(* with an error naming a global that is absent, no window is created, no  *)
(* event is dispatched and the process exits with a non-zero status.       *)
(***************************************************************************)
C7_RequiredCapabilities ==
    /\ (pc = "running" \/ windowCreated) => RequiredGlobals \subseteq globals
    /\ error = "WaylandProtocol" => ~(RequiredGlobals \subseteq globals)
    /\ (Negotiated /\ ~(RequiredGlobals \subseteq globals)) =>
           /\ pc = "exited"
           /\ exitCode = 1
           /\ error = "WaylandProtocol"
           /\ GlobalOfName(errorName) \in RequiredGlobals \ globals
           /\ ~windowCreated
           /\ ~inDispatch
           /\ nEvents = 0
           /\ draws = 0
           /\ trace = <<>>

\* Startup failed with two required globals absent.
C7_Witness ==
    /\ pc = "exited"
    /\ error = "WaylandProtocol"
    /\ Cardinality(RequiredGlobals \ globals) = 2
    /\ "wp_viewporter" \notin globals
    /\ "zwlr_layer_shell_v1" \in globals

\* Everything but the optional globals that startup needs.
StartupCanSucceed ==
    /\ connectOk
    /\ eglOk
    /\ RequiredGlobals \subseteq globals
    /\ options.image # "bad"

(***************************************************************************)
(* C8: whether the optional globals are advertised never decides whether   *)
(* startup succeeds, and the two modes fixed at startup (flat-colour       *)
(* buffer or GPU; integer or fractional scale) are what the advertised     *)
(* globals and the options determine in every state, changed by no step.   *)
(***************************************************************************)
C8_OptionalModesPermanent ==
    /\ [](pc # "init" => (windowCreated <=> StartupCanSucceed))
    /\ [](windowCreated =>
            /\ protocol_states.single_pixel_buffer
                   <=> "wp_single_pixel_buffer_manager_v1" \in globals
            /\ protocol_states.fractional_scale
                   <=> "wp_fractional_scale_manager_v1" \in globals
            /\ spb_buffer # 0 <=> FlatColorPath
            /\ spb_buffer \in {0, 1})
    /\ [][windowCreated =>
            UNCHANGED <<protocol_states, spb_buffer, buffers, globals,
                        options, windowCreated>>]_vars

\* A window created without either optional global has handled events and
\* drawn.
C8_Witness ==
    /\ windowCreated
    /\ globals \cap OptionalGlobals = {}
    /\ nEvents >= 2
    /\ draws >= 1
    /\ pc = "running"

(***************************************************************************)
(* C9: the process exits with status 0 only after Closed was handled, and  *)
(* with a non-zero status only when run() returned an initialization or    *)
(* dispatch error.                                                         *)
(***************************************************************************)
C9_ExitStatus ==
    /\ exitCode = 0 => (terminated /\ error = "none")
    /\ exitCode \notin {-1, 0} =>
           error \in {"WaylandConnect", "WaylandProtocol", "Glutin", "Image",
                      "WaylandDispatch"}

\* The rest of C9, which the code keeps: no step clears the terminated
\* flag, and no blocking dispatch starts once it is set.
C9_TerminatedIsFinal ==
    [][terminated => (terminated' /\ ~(~inDispatch /\ inDispatch'))]_vars

(***************************************************************************)
(* C10: with an image path that fails to open or decode the process never  *)
(* enters the event loop and never redraws: it ends with a non-zero status *)
(* and an error, which is the image error whenever Window::new gets as far *)
(* as loading the image, with or without the flat-colour global.           *)
(***************************************************************************)
C10_ImageFailureFatal ==
    (options.image = "bad" /\ pc # "init") =>
        /\ pc = "exited"
        /\ exitCode = 1
        /\ error # "none"
        /\ ~windowCreated
        /\ ~inDispatch
        /\ nEvents = 0
        /\ draws = 0
        /\ attached = 0
        /\ (connectOk /\ eglOk /\ RequiredGlobals \subseteq globals)
               => error = "Image"

\* The image error ended startup although the flat-colour global is there.
C10_Witness ==
    /\ options.image = "bad"
    /\ pc = "exited"
    /\ error = "Image"
    /\ "wp_single_pixel_buffer_manager_v1" \in globals

(***************************************************************************)
(* Command-line values. A string is a sequence of one-character strings.   *)
(* They are parsed by Options::parse() at the start of run(), while the    *)
(* program is still in its initial state.                                  *)
(***************************************************************************)
\* All strings over the alphabet of at most n characters.
Strings(alphabet, n) == UNION {[1..k -> alphabet] : k \in 0..n}

\* The program at the start of run(), with nothing to connect to.
NotStarted ==
    /\ connectOk = FALSE
    /\ eglOk = FALSE
    /\ globals = {}
    /\ options = [image |-> "none", color |-> <<0, 0, 0>>]
    /\ imageFile = NoImageFile
    /\ pc = "init"
    /\ exitCode = -1
    /\ error = "none"
    /\ errorName = ""
    /\ protocol_states = NoProtocolStates
    /\ windowCreated = FALSE
    /\ size = DefaultSize
    /\ scale = ScaleUnit
    /\ spb_buffer = 0
    /\ image = "none"
    /\ sized = NoSized
    /\ terminated = FALSE
    /\ inDispatch = FALSE
    /\ buffers = 0
    /\ attached = 0
    /\ destination = DefaultSize
    /\ damaged = DefaultSize
    /\ physical = DefaultSize
    /\ textureFormat = "none"
    /\ opaque = DefaultSize
    /\ ctxCreated = 0
    /\ textures = 0
    /\ clearColor = NoColor
    /\ draws = 0
    /\ trace = <<>>
    /\ lastEv = NoEvent
    /\ preSize = DefaultSize
    /\ preScale = ScaleUnit
    /\ sizeKnown = FALSE
    /\ nEvents = 0

\* The variables of the program proper.
programVars == <<cfgVars, procVars, protocol_states, windowCreated, winVars,
                 terminated, inDispatch, surfVars, trace, histVars>>

(***************************************************************************)
(* cli.rs: Rgb::from_str                                                   *)
(***************************************************************************)
\* Length the colour must have after the optional hash.
HexLen == 6
\* Longest colour string tried, after its hashes.
MaxColorLen == 7
\* Most leading hashes tried.
MaxHashes == 2

\* Characters of the colour strings tried: a sign, a letter past f, digits.
ColorChars == {"+", "g", "0", "f"}

\* The digits of radix 16, in upper and lower case, by value.
LowerDigits == <<"0", "1", "2", "3", "4", "5", "6", "7", "8", "9",
                 "a", "b", "c", "d", "e", "f">>
UpperDigits == <<"0", "1", "2", "3", "4", "5", "6", "7", "8", "9",
                 "A", "B", "C", "D", "E", "F">>

\* char::to_digit(16): the digit's value, -1 for None.
to_digit(c) ==
    IF \E v \in 1..16 : LowerDigits[v] = c \/ UpperDigits[v] = c
    THEN (CHOOSE v \in 1..16 : LowerDigits[v] = c \/ UpperDigits[v] = c) - 1
    ELSE -1

\* The value of a sequence of digits, most significant first.
RECURSIVE DigitsValue(_)
DigitsValue(ds) ==
    IF ds = <<>> THEN 0
    ELSE 16 * DigitsValue(SubSeq(ds, 1, Len(ds) - 1)) + to_digit(ds[Len(ds)])

\* u32::from_str_radix(src, 16): Empty on "", InvalidDigit on a lone sign; a
\* leading '+' is skipped (a '-' is not, for an unsigned type); then every
\* character must be a digit. Overflow needs more than 8 digits.
u32_from_str_radix(src) ==
    LET digits == IF Len(src) > 1 /\ src[1] = "+" THEN Tail(src) ELSE src IN
    IF src = <<>> \/ src = <<"+">> \/ src = <<"-">>
       \/ \E i \in 1..Len(digits) : to_digit(digits[i]) = -1
    THEN [ok |-> FALSE, value |-> 0]
    ELSE [ok |-> TRUE, value |-> DigitsValue(digits)]

\* str::strip_prefix('#').unwrap_or(s)
StripHash(s) == IF s # <<>> /\ s[1] = "#" THEN Tail(s) ELSE s

\* Rgb::from_str
Rgb_from_str(s) ==
    LET color == StripHash(s) IN
    IF Len(color) # HexLen
    THEN [ok |-> FALSE, err |-> "must contain exactly 6 hex digits"]
    ELSE LET combined == u32_from_str_radix(color) IN
         IF ~combined.ok
         THEN [ok |-> FALSE,
               err |-> "must only contain the characters 0-9 and a-f"]
         ELSE [ok |-> TRUE,
               r |-> (combined.value \div 65536) % 256,
               g |-> (combined.value \div 256) % 256,
               b |-> combined.value % 256]

\* The colour strings tried: up to MaxHashes hashes, then ColorChars.
ColorInputs ==
    {[i \in 1..h |-> "#"] \o body :
        h \in 0..MaxHashes, body \in Strings(ColorChars, MaxColorLen)}

InitRgb ==
    /\ NotStarted
    /\ fnArg \in ColorInputs
    /\ fnResult = <<>>
    /\ fnDone = FALSE

\* clap parses --color with Rgb::from_str.
ParseColor ==
    /\ ~fnDone
    /\ fnResult' = Rgb_from_str(fnArg)
    /\ fnDone' = TRUE
    /\ UNCHANGED <<fnArg, programVars>>

NextRgb == ParseColor

SpecRgb == InitRgb /\ [][NextRgb]_vars

\* A hex digit.
IsHexDigit(c) ==
    c \in {"0", "1", "2", "3", "4", "5", "6", "7", "8", "9",
           "a", "b", "c", "d", "e", "f", "A", "B", "C", "D", "E", "F"}

\* The input without its one optional leading hash.
Remainder(s) == IF Len(s) >= 1 /\ Head(s) = "#" THEN SubSeq(s, 2, Len(s)) ELSE s

\* The byte written by the two hex digits hi and lo.
PairByte(hi, lo) == 16 * to_digit(hi) + to_digit(lo)

\* C11: a remainder of exactly 6 hex digits parses to the bytes of its three
\* digit pairs; a remainder of another length, or with a character that is
\* not a hex digit, is rejected.
C11_ColorParsing ==
    fnDone =>
        LET rem == Remainder(fnArg)
            sixHex == Len(rem) = 6 /\ \A i \in 1..6 : IsHexDigit(rem[i])
        IN IF sixHex
           THEN /\ fnResult.ok
                /\ fnResult.r = PairByte(rem[1], rem[2])
                /\ fnResult.g = PairByte(rem[3], rem[4])
                /\ fnResult.b = PairByte(rem[5], rem[6])
           ELSE ~fnResult.ok

\* C11, the part that holds: six hex digits give their bytes, a wrong length is
\* rejected, and whatever is accepted has six characters after the hash.
C11_SixHexDigits ==
    fnDone =>
        LET rem == Remainder(fnArg) IN
        /\ (Len(rem) = 6 /\ \A i \in 1..6 : IsHexDigit(rem[i]))
               => /\ fnResult.ok
                  /\ fnResult.r = PairByte(rem[1], rem[2])
                  /\ fnResult.g = PairByte(rem[3], rem[4])
                  /\ fnResult.b = PairByte(rem[5], rem[6])
        /\ Len(rem) # 6 => ~fnResult.ok

\* A sign and five digits were accepted as a colour.
C11_SignAccepted ==
    /\ fnDone
    /\ fnResult.ok
    /\ Remainder(fnArg)[1] = "+"

(***************************************************************************)
(* geometry.rs: Position::<f32>::from_str                                  *)
(***************************************************************************)
\* Longest focus string tried.
MaxFocusLen == 6

\* Characters of the focus strings tried: signs, the point, digits and a
\* letter that no float literal holds (so no exponent, inf or nan is tried).
FocusChars == {"+", "-", ".", "0", "5", "x"}

\* A decimal digit.
IsDigit(c) == c \in {"0", "1", "2", "3", "4", "5", "6", "7", "8", "9"}

\* The value of a sequence of decimal digits, most significant first.
RECURSIVE DecimalValue(_)
DecimalValue(ds) ==
    IF ds = <<>> THEN 0
    ELSE 10 * DecimalValue(SubSeq(ds, 1, Len(ds) - 1)) + to_digit(ds[Len(ds)])

\* f32::from_str on a string without letters: an optional sign, then digits
\* with at most one point and at least one digit. The value is
\* (-1)^neg * m / 10^e.
f32_from_str(s) ==
    LET signed == s # <<>> /\ s[1] \in {"+", "-"}
        number == IF signed THEN Tail(s) ELSE s
        points == {i \in 1..Len(number) : number[i] = "."}
        valid ==
            /\ \A i \in 1..Len(number) : IsDigit(number[i]) \/ number[i] = "."
            /\ Cardinality(points) <= 1
            /\ \E i \in 1..Len(number) : IsDigit(number[i])
    IN IF ~valid
       THEN [ok |-> FALSE, neg |-> FALSE, m |-> 0, e |-> 0]
       ELSE [ok |-> TRUE,
             neg |-> (s[1] = "-"),
             m |-> DecimalValue(SelectSeq(number, IsDigit)),
             e |-> IF points = {} THEN 0
                   ELSE Len(number) - (CHOOSE i \in points : TRUE)]

\* Index of the first '+' of s, 0 when there is none.
FirstPlus(s) ==
    IF \E i \in 1..Len(s) : s[i] = "+"
    THEN CHOOSE i \in 1..Len(s) :
             s[i] = "+" /\ \A j \in 1..(i - 1) : s[j] # "+"
    ELSE 0

\* Position::from_str: split_once('+'), then T::from_str on both parts.
Position_from_str(s) ==
    LET at == FirstPlus(s) IN
    IF at = 0
    THEN [ok |-> FALSE, err |-> "X and Y must be separated by +"]
    ELSE LET x == f32_from_str(SubSeq(s, 1, at - 1))
             y == f32_from_str(SubSeq(s, at + 1, Len(s)))
         IN IF ~x.ok THEN [ok |-> FALSE, err |-> "invalid X float"]
            ELSE IF ~y.ok THEN [ok |-> FALSE, err |-> "invalid Y float"]
            ELSE [ok |-> TRUE, x |-> x, y |-> y]

InitPosition ==
    /\ NotStarted
    /\ fnArg \in Strings(FocusChars, MaxFocusLen)
    /\ fnResult = <<>>
    /\ fnDone = FALSE

\* clap parses --focus with Position::from_str.
ParseFocus ==
    /\ ~fnDone
    /\ fnResult' = Position_from_str(fnArg)
    /\ fnDone' = TRUE
    /\ UNCHANGED <<fnArg, programVars>>

NextPosition == ParseFocus

SpecPosition == InitPosition /\ [][NextPosition]_vars

\* An unsigned numeric literal: digits with at most one point.
IsLiteral(s) ==
    /\ \A i \in 1..Len(s) : IsDigit(s[i]) \/ s[i] = "."
    /\ Cardinality({i \in 1..Len(s) : s[i] = "."}) <= 1
    /\ \E i \in 1..Len(s) : IsDigit(s[i])

\* A numeric literal, with or without a leading minus.
IsNumeric(s) ==
    IsLiteral(s) \/ (s # <<>> /\ Head(s) = "-" /\ IsLiteral(Tail(s)))

\* The '+' characters of s.
Pluses(s) == {i \in 1..Len(s) : s[i] = "+"}

\* s is X+Y with one separator and numeric X and Y.
WellFormedFocus(s) ==
    /\ Cardinality(Pluses(s)) = 1
    /\ \A i \in Pluses(s) : /\ IsNumeric(SubSeq(s, 1, i - 1))
                            /\ IsNumeric(SubSeq(s, i + 1, Len(s)))

\* C12: "X+Y" with numeric X and Y is accepted; an input without '+', with a
\* malformed separator such as a repeated '+', or with an empty or
\* non-numeric component on either side is rejected.
C12_FocusParsing ==
    fnDone => (fnResult.ok <=> WellFormedFocus(fnArg))

\* C12, the part that holds: every well-formed X+Y is accepted, and whatever is
\* accepted has a '+', and a digit and no letter on both sides of its first.
C12_WellFormedAccepted ==
    fnDone =>
        /\ WellFormedFocus(fnArg) => fnResult.ok
        /\ fnResult.ok =>
              LET at == FirstPlus(fnArg)
                  x == SubSeq(fnArg, 1, at - 1)
                  y == SubSeq(fnArg, at + 1, Len(fnArg))
              IN /\ at > 0
                 /\ \E i \in 1..Len(x) : IsDigit(x[i])
                 /\ \E i \in 1..Len(y) : IsDigit(y[i])
                 /\ \A i \in 1..Len(fnArg) : fnArg[i] # "x"

\* "5++5" was accepted: the second '+' is read as the sign of Y.
C12_RepeatedPlusAccepted ==
    /\ fnDone
    /\ fnResult.ok
    /\ \E i \in 1..(Len(fnArg) - 1) : fnArg[i] = "+" /\ fnArg[i + 1] = "+"

(***************************************************************************)
(* window.rs: the image fit of Window::gl_render. The f32 values are kept  *)
(* as exact fractions [n, d] with d > 0; rounding of f32 is not modelled.  *)
(***************************************************************************)
\* Largest width/height of the viewport and of the image tried.
MaxFitDim == 3
\* The focus values tried on each axis are 0/FocusUnit .. FocusUnit/FocusUnit.
FocusUnit == 4

Rat(n, d) == [n |-> n, d |-> d]
RatMul(p, q) == Rat(p.n * q.n, p.d * q.d)
RatSub(p, q) == Rat(p.n * q.d - q.n * p.d, p.d * q.d)
RatLt(p, q) == p.n * q.d < q.n * p.d
RatLe(p, q) == p.n * q.d <= q.n * p.d
RatEq(p, q) == p.n * q.d = q.n * p.d
RatZero == Rat(0, 1)

\* Size<f32> from Size<u32>.
SizeF32(sz) == [width |-> Rat(sz.width, 1), height |-> Rat(sz.height, 1)]

\* A fit that centres the overflow whatever the focus is.
Window_fit_centered(physical_size, image_size, focus) ==
    LET p == SizeF32(physical_size)
        i == SizeF32(image_size)
        width_ratio == Rat(p.width.n * i.width.d, p.width.d * i.width.n)
        height_ratio == Rat(p.height.n * i.height.d, p.height.d * i.height.n)
        half == Rat(1, 2)
    IN IF RatLt(width_ratio, height_ratio)
       THEN LET width == RatMul(i.width, height_ratio)
                x == RatMul(RatSub(p.width, width), half)
            IN [branch |-> "height_ratio",
                position |-> [x |-> x, y |-> RatZero],
                size |-> [width |-> width, height |-> p.height]]
       ELSE LET height == RatMul(i.height, width_ratio)
                y == RatMul(RatSub(p.height, height), half)
            IN [branch |-> "width_ratio",
                position |-> [x |-> RatZero, y |-> y],
                size |-> [width |-> p.width, height |-> height]]

\* A fit that scales by the smaller ratio.
Window_fit_contain(physical_size, image_size, focus) ==
    LET p == SizeF32(physical_size)
        i == SizeF32(image_size)
        width_ratio == Rat(p.width.n * i.width.d, p.width.d * i.width.n)
        height_ratio == Rat(p.height.n * i.height.d, p.height.d * i.height.n)
    IN IF RatLt(height_ratio, width_ratio)
       THEN LET width == RatMul(i.width, height_ratio)
                x == RatMul(RatSub(p.width, width), focus.x)
            IN [branch |-> "height_ratio",
                position |-> [x |-> x, y |-> RatZero],
                size |-> [width |-> width, height |-> p.height]]
       ELSE LET height == RatMul(i.height, width_ratio)
                y == RatMul(RatSub(p.height, height), focus.y)
            IN [branch |-> "width_ratio",
                position |-> [x |-> RatZero, y |-> y],
                size |-> [width |-> p.width, height |-> height]]

\* Window::gl_render, "Fit image to screen dimensions": the position and
\* size handed to draw_texture_at; branch names the ratio the image is
\* scaled by.
Window_fit(physical_size, image_size, focus) ==
    LET p == SizeF32(physical_size)
        i == SizeF32(image_size)
        width_ratio == Rat(p.width.n * i.width.d, p.width.d * i.width.n)
        height_ratio == Rat(p.height.n * i.height.d, p.height.d * i.height.n)
    IN IF RatLt(width_ratio, height_ratio)
       THEN LET width == RatMul(i.width, height_ratio)
                x == RatMul(RatSub(p.width, width), focus.x)
            IN [branch |-> "height_ratio",
                position |-> [x |-> x, y |-> RatZero],
                size |-> [width |-> width, height |-> p.height]]
       ELSE LET height == RatMul(i.height, width_ratio)
                y == RatMul(RatSub(p.height, height), focus.y)
            IN [branch |-> "width_ratio",
                position |-> [x |-> RatZero, y |-> y],
                size |-> [width |-> p.width, height |-> height]]

\* Positive sizes of the viewport and of the image.
FitSizes == {Size(w, h) : w \in 1..MaxFitDim, h \in 1..MaxFitDim}

\* Focus points in [0,1] x [0,1].
FocusPoints ==
    {[x |-> Rat(a, FocusUnit), y |-> Rat(b, FocusUnit)] :
        a \in 0..FocusUnit, b \in 0..FocusUnit}

InitFit ==
    /\ NotStarted
    /\ fnArg \in [physical_size : FitSizes, image_size : FitSizes,
                  focus : FocusPoints]
    /\ fnResult = <<>>
    /\ fnDone = FALSE

\* gl_render fits the image to the physical size.
FitImage ==
    /\ ~fnDone
    /\ fnResult' = Window_fit(fnArg.physical_size, fnArg.image_size,
                              fnArg.focus)
    /\ fnDone' = TRUE
    /\ UNCHANGED <<fnArg, programVars>>

NextFit == FitImage

SpecFit == InitFit /\ [][NextFit]_vars

\* The viewport as fractions.
Viewport == SizeF32(fnArg.physical_size)

\* scaled_size - viewport on each axis.
OverflowX == RatSub(fnResult.size.width, Viewport.width)
OverflowY == RatSub(fnResult.size.height, Viewport.height)

RatBetween(lo, p, hi) == RatLe(lo, p) /\ RatLe(p, hi)
RatNeg(p) == Rat(-p.n, p.d)

\* C13 as stated: on each axis the offset is in [0, scaled - viewport], 0 at
\* focus 0 and scaled - viewport at focus 1.
C13_OffsetRange ==
    fnDone =>
        /\ RatBetween(RatZero, fnResult.position.x, OverflowX)
        /\ RatBetween(RatZero, fnResult.position.y, OverflowY)
        /\ fnArg.focus.x.n = 0 => RatEq(fnResult.position.x, RatZero)
        /\ fnArg.focus.y.n = 0 => RatEq(fnResult.position.y, RatZero)
        /\ fnArg.focus.x.n = FocusUnit => RatEq(fnResult.position.x, OverflowX)
        /\ fnArg.focus.y.n = FocusUnit => RatEq(fnResult.position.y, OverflowY)

\* C13, amended: on each axis the offset is in [viewport - scaled, 0], 0 at
\* focus 0 and viewport - scaled at focus 1.
C13_OffsetRangeNegative ==
    fnDone =>
        /\ RatBetween(RatNeg(OverflowX), fnResult.position.x, RatZero)
        /\ RatBetween(RatNeg(OverflowY), fnResult.position.y, RatZero)
        /\ fnArg.focus.x.n = 0 => RatEq(fnResult.position.x, RatZero)
        /\ fnArg.focus.y.n = 0 => RatEq(fnResult.position.y, RatZero)
        /\ fnArg.focus.x.n = FocusUnit
               => RatEq(fnResult.position.x, RatNeg(OverflowX))
        /\ fnArg.focus.y.n = FocusUnit
               => RatEq(fnResult.position.y, RatNeg(OverflowY))

\* An image wider than the viewport was fitted with the focus at its left
\* edge: the offset is 0 although there is overflow.
C13_Witness ==
    /\ fnDone
    /\ fnArg.focus.x.n = 0
    /\ RatLt(RatZero, OverflowX)
    /\ RatEq(fnResult.position.x, RatZero)

\* C14: the image is scaled by max(wr, hr): the fitted size is the viewport's
\* on one axis and at least the viewport's on the other, it has the image's
\* aspect ratio, the offset is 0 on the axis of equal size, and the image is
\* scaled by the height ratio exactly when wr < hr.
C14_CoverFit ==
    fnDone =>
        LET v == Viewport
            i == SizeF32(fnArg.image_size)
            wr == Rat(v.width.n, i.width.n)
            hr == Rat(v.height.n, i.height.n)
            max == IF RatLt(wr, hr) THEN hr ELSE wr
            s == fnResult.size
        IN /\ RatEq(s.width, RatMul(i.width, max))
           /\ RatEq(s.height, RatMul(i.height, max))
           /\ RatLe(v.width, s.width) /\ RatLe(v.height, s.height)
           /\ RatEq(s.width, v.width) \/ RatEq(s.height, v.height)
           /\ RatEq(RatMul(s.width, i.height), RatMul(s.height, i.width))
           /\ RatEq(s.width, v.width) => RatEq(fnResult.position.x, RatZero)
           /\ RatEq(s.height, v.height) => RatEq(fnResult.position.y, RatZero)
           /\ fnResult.branch = "height_ratio" <=> RatLt(wr, hr)

\* A wide viewport was covered by a tall image: the fitted height overflows.
C14_Witness ==
    /\ fnDone
    /\ fnResult.branch = "width_ratio"
    /\ RatLt(RatZero, OverflowY)
    /\ RatEq(OverflowX, RatZero)

(***************************************************************************)
(* Properties of the redraw (Spec).                                        *)
(***************************************************************************)
\* The requests of the last handler from the start of its Window::draw on.
DrawOps(ops) == SubSeq(ops, Pos(ops, "set_destination"), Len(ops))

\* The requests of a render path: the buffer attach, or the EGL/GL calls.
RenderOps == IF FlatColorPath THEN {"attach"} ELSE GpuOps

\* C4, the last clause as stated: on the GPU path a textured draw follows
\* the clear if and only if an image is configured.
C4_TexturedDrawFollows ==
    (GpuPath /\ nEvents > 0 /\ Count(trace, "clear") > 0) =>
        (Count(trace, "draw_arrays") = 1 <=> options.image # "none")

\* C15: every Window::draw issues the viewport destination of the current
\* logical size, then the damage of the full rectangle, then the requests of
\* the render path, and exactly one commit as its last request.
C15_RedrawOrder ==
    (nEvents > 0 /\ DrawsIn(trace) >= 1) =>
        LET d == DrawOps(trace) IN
        /\ DrawsIn(trace) = 1
        /\ destination = size
        /\ Len(d) >= 4
        /\ d[2] = "damage"
        /\ damaged = size
        /\ \A i \in 3..(Len(d) - 1) : d[i] \in RenderOps
        /\ d[Len(d)] = "commit"
        /\ CommitsIn(trace) = 1

\* C15, the part that holds: the order of the requests that are issued, at
\* most one commit, the commit last and never missing when the draw returns;
\* so every commit of a handler follows a destination request of its redraw.
C15_OrderOfIssued ==
    nEvents > 0 =>
        /\ DrawsIn(trace) <= 1
        /\ CommitsIn(trace) <= DrawsIn(trace)
        /\ DrawsIn(trace) = 1 =>
              LET d == DrawOps(trace) IN
              /\ destination = size
              /\ Len(d) >= 2
              /\ d[2] = "damage"
              /\ damaged = size
              /\ \A i \in 3..Len(d) : d[i] \in RenderOps \cup {"commit"}
              /\ \A i \in 3..(Len(d) - 1) : d[i] # "commit"
              /\ pc # "panicked" => d[Len(d)] = "commit" /\ Len(d) >= 4

\* A redraw panicked after its destination and damage requests: no commit.
C15_DrawWithoutCommit ==
    /\ nEvents > 0
    /\ DrawsIn(trace) = 1
    /\ CommitsIn(trace) = 0
    /\ pc = "panicked"

\* The step handles a Configure event.
ConfigureStep == HandlerStep /\ lastEv'.kind = "configure"

ScaleChangeStep ==
    /\ HandlerStep
    /\ lastEv'.kind \in ScaleKinds
    /\ Honoured(lastEv')
    /\ EventScale(lastEv') # scale

\* C17: an honoured scale notification with a new factor stores it, and
\* redraws exactly when the logical size is not the initial (0,0); a redraw
\* that a Configure triggers uses the stored scale.
C17_ScaleBeforeSize ==
    [][/\ ScaleChangeStep =>
            /\ scale' = EventScale(lastEv')
            /\ size' = size
            /\ DrawsIn(trace') = (IF size # DefaultSize THEN 1 ELSE 0)
       /\ (ConfigureStep /\ DrawsIn(trace') = 1) =>
            /\ scale' = scale
            /\ GpuPath => physical' = Mul(size', scale)
      ]_vars

\* A scale notification was handled while the size was still (0,0), without
\* a redraw; the Configure after it drew with the stored scale.
C17_Witness ==
    /\ nEvents = 2
    /\ draws = 1
    /\ GpuPath
    /\ Redrawn
    /\ lastEv.kind = "configure"
    /\ preSize = DefaultSize
    /\ preScale = scale
    /\ scale # ScaleUnit
    /\ physical = Mul(size, scale)
    /\ physical # size

\* r is x * sc / ScaleUnit rounded to the nearest integer, a tie rounded up.
IsNearest(r, x, sc) ==
    /\ 2 * (x * sc - r * ScaleUnit) < ScaleUnit
    /\ 2 * (r * ScaleUnit - x * sc) <= ScaleUnit

\* C18: on the GPU path the size handed to Renderer::draw is the logical size
\* times the stored scale, rounded per axis to the nearest integer with ties
\* away from zero.
C18_PhysicalSizeRounding ==
    (GpuPath /\ nEvents > 0 /\ DrawsIn(trace) = 1) =>
        /\ IsNearest(physical.width, size.width, scale)
        /\ IsNearest(physical.height, size.height, scale)

\* A redraw whose scaled width is half-way between two integers: it was
\* rounded up.
C18_Witness ==
    /\ GpuPath
    /\ Redrawn
    /\ (2 * size.width * scale) % (2 * ScaleUnit) = ScaleUnit
    /\ 2 * (physical.width * ScaleUnit - size.width * scale) = ScaleUnit

\* An image is configured and was decoded at startup.
ImageConfigured == windowCreated /\ options.image = "ok"

\* C19: a configured image is Unloaded in every state before the first GPU
\* redraw and Loaded in every state after it, and exactly one texture is
\* created then.
C19_LazyOneShotLoad ==
    ImageConfigured =>
        /\ image = (IF draws = 0 THEN "Unloaded" ELSE "Loaded")
        /\ textures = (IF draws = 0 THEN 0 ELSE 1)

\* C19, the part that holds: the image is Unloaded before the first redraw,
\* at most one texture is ever created, the image is Loaded exactly when it
\* was, Loaded never reverts, and the load happens inside Renderer::draw,
\* between make_current and the flush; a redraw that returns leaves the
\* image Loaded.
C19_LoadOnceInsideDraw ==
    [][/\ (ImageConfigured' /\ draws' = 0) => image' = "Unloaded"
       /\ textures' <= 1
       /\ ImageConfigured' => (image' = "Loaded" <=> textures' = 1)
       /\ image = "Loaded" => image' = "Loaded"
       /\ (ImageConfigured /\ image' # image) =>
             /\ image = "Unloaded" /\ image' = "Loaded"
             /\ HandlerStep
             /\ Count(trace', "texture_new") = 1
             /\ 0 < Pos(trace', "make_current")
             /\ Pos(trace', "make_current") < Pos(trace', "texture_new")
             /\ Pos(trace', "texture_new") < Pos(trace', "flush")
       /\ (ImageConfigured' /\ draws' >= 1 /\ pc' # "panicked")
             => image' = "Loaded"
      ]_vars

\* A second redraw with the image Loaded: no second texture.
C19_LoadedRedrawnAgain ==
    /\ ImageConfigured
    /\ Redrawn
    /\ draws = 2
    /\ image = "Loaded"
    /\ textures = 1
    /\ Count(trace, "texture_new") = 0
    /\ Count(trace, "draw_arrays") = 1

\* C20: whatever the decoded colour type of the image, the first GPU draw
\* that reaches the image uploads its texture with the matching format, and
\* the assertion on the buffer length in the texture creation holds.
C20_EveryFormatAccepted ==
    (ImageConfigured /\ nEvents > 0 /\ Count(trace, "clear") > 0) =>
        /\ pc # "panicked"
        /\ textures = 1
        /\ textureFormat = GlFormat(imageFile.color)

\* C20, the part that holds: an RGBA buffer is uploaded as RGBA, and every
\* texture that is uploaded has the format of its image.
C20_RgbaAccepted ==
    /\ (ImageConfigured /\ nEvents > 0 /\ Count(trace, "clear") > 0
            /\ imageFile.color = "Rgba8") =>
          /\ pc # "panicked"
          /\ textures = 1
          /\ textureFormat = "RGBA"
    /\ textures = 1 => textureFormat = GlFormat(imageFile.color)

\* The first GPU draw of an image that is not RGBA panicked in the texture
\* creation, after the clear.
C20_TextureAssertFailed ==
    /\ ImageConfigured
    /\ imageFile.color # "Rgba8"
    /\ pc = "panicked"
    /\ Count(trace, "clear") = 1
    /\ textures = 0
    /\ image = "Unloaded"

(***************************************************************************)
(* Properties of Renderer::draw (Spec).                                    *)
(***************************************************************************)
\* The OpenGL calls: program setup, viewport, clear, texture creation,
\* uniform updates, textured draw, flush.
GlOps == {"create_program", "gl_viewport", "clear_color", "clear",
          "texture_new", "uniform_matrix", "uniform_position",
          "bind_texture", "draw_arrays", "flush"}

\* The calls that make the EGL context current: in create_surface and in
\* SizedRenderer::make_current.
MakeCurrents == {"ctx_make_current", "make_current"}

\* C21: every OpenGL call of a handler is inside the one Renderer::draw of
\* its redraw, after the context was made current there and before the
\* buffer swap; none is made at construction or by a handler that does not
\* draw, and a draw that returns ends with the swap.
C21_GpuOpsInsideDraw ==
    /\ nEvents = 0 => GpuOpsIn(trace) = {} /\ ctxCreated = 0 /\ textures = 0
    /\ Count(trace, "swap_buffers") <= 1
    /\ \A i \in 1..Len(trace) :
          trace[i] \in GlOps =>
              /\ GpuPath
              /\ DrawsIn(trace) = 1
              /\ Pos(trace, "damage") < i
              /\ \E j \in 1..(i - 1) : trace[j] \in MakeCurrents
              /\ \A j \in 1..(i - 1) : trace[j] # "swap_buffers"
              /\ pc # "panicked" =>
                     \E j \in (i + 1)..Len(trace) : trace[j] = "swap_buffers"

\* The first GPU redraw with an image returned: program setup, texture
\* creation and textured draw all happened in it.
C21_Witness ==
    /\ Redrawn
    /\ GpuPath
    /\ pc # "panicked"
    /\ Count(trace, "create_program") = 1
    /\ Count(trace, "texture_new") = 1
    /\ Count(trace, "draw_arrays") = 1
    /\ Count(trace, "swap_buffers") = 1

\* Both requests are in the trace of the last handler, a before b.
Before(a, b) == 0 < Pos(trace, a) /\ Pos(trace, a) < Pos(trace, b)

\* If both requests are in the trace of the last handler, a is before b.
NotAfter(a, b) ==
    (Pos(trace, a) > 0 /\ Pos(trace, b) > 0) => Pos(trace, a) < Pos(trace, b)

\* C22: a Renderer::draw that returns has made the context current, then
\* resized if the size differs, then set the viewport, then run the caller's
\* draw commands, then flushed, then swapped buffers, in this order.
C22_StepOrder ==
    (GpuPath /\ Redrawn) =>
        /\ Before("make_current", "gl_viewport")
        /\ NotAfter("make_current", "egl_resize")
        /\ NotAfter("egl_resize", "gl_viewport")
        /\ Before("gl_viewport", "clear_color")
        /\ Before("clear", "flush")
        /\ Before("flush", "swap_buffers")

\* C22, the order that holds: the sized state is created or resized first,
\* then the context is made current, then viewport, draw commands, flush
\* and swap; a draw that panics stops somewhere in this order.
C22_SizedThenCurrent ==
    (GpuPath /\ nEvents > 0 /\ DrawsIn(trace) = 1) =>
        /\ NotAfter("egl_resize", "make_current")
        /\ NotAfter("create_program", "make_current")
        /\ Count(trace, "egl_resize") + Count(trace, "create_program") <= 1
        /\ Pos(trace, "gl_viewport") > 0 => Before("make_current", "gl_viewport")
        /\ Pos(trace, "clear_color") > 0 => Before("gl_viewport", "clear_color")
        /\ Pos(trace, "clear") > 0 => Before("clear_color", "clear")
        /\ Pos(trace, "draw_arrays") > 0 => Before("clear", "draw_arrays")
        /\ Pos(trace, "flush") > 0 => Before("clear", "flush")
        /\ NotAfter("draw_arrays", "flush")
        /\ Pos(trace, "swap_buffers") > 0 => Before("flush", "swap_buffers")
        /\ pc # "panicked" => Before("flush", "swap_buffers")

\* A later draw with another size returned: the surface was resized before
\* the context was made current.
C22_ResizedBeforeCurrent ==
    /\ GpuPath
    /\ Redrawn
    /\ Before("egl_resize", "make_current")

(***************************************************************************)
(* Properties of ProtocolStates::new (Spec)                                *)
(***************************************************************************)
\* The first global of the sequence order that g does not advertise.
RECURSIVE FirstAbsent(_, _)
FirstAbsent(order, g) ==
    IF order = <<>> THEN "none"
    ELSE IF Head(order) \notin g THEN Head(order)
    ELSE FirstAbsent(Tail(order), g)

\* The required globals in the order ProtocolStates::new binds them.
BindingOrder == <<"zwlr_layer_shell_v1", "wl_compositor", "wp_viewporter">>

\* C23: when startup fails for a required global, the error names the first
\* absent one in the order viewport-scaling, background-layer placement,
\* surface-compositing.
C23_ViewporterNamedFirst ==
    (Negotiated /\ error = "WaylandProtocol") =>
        GlobalOfName(errorName) =
            FirstAbsent(<<"wp_viewporter", "zwlr_layer_shell_v1",
                          "wl_compositor">>, globals)

\* C23, the order that holds: the error names the first absent global in
\* the order layer shell, compositor, viewporter.
C23_LayerShellNamedFirst ==
    (Negotiated /\ error = "WaylandProtocol") =>
        GlobalOfName(errorName) = FirstAbsent(BindingOrder, globals)

\* Startup failed with the viewporter and the layer shell both absent, and
\* the error names the layer shell.
C23_LayerShellNamed ==
    /\ pc = "exited"
    /\ error = "WaylandProtocol"
    /\ "wp_viewporter" \notin globals
    /\ "zwlr_layer_shell_v1" \notin globals
    /\ errorName = "wlr_layer_shell"

(***************************************************************************)
(* Properties of the physical size (Spec)                                  *)
(***************************************************************************)
\* The last handler called Renderer::draw.
RendererDrawn == GpuPath /\ nEvents > 0 /\ DrawsIn(trace) = 1

\* A size with no zero dimension.
NonZero(s) == s.width > 0 /\ s.height > 0

\* C24: the physical size passed to Renderer::draw is non-zero on both
\* axes for every sequence of events, and no assertion or NonZeroU32
\* conversion of the renderer fails.
C24_NonZeroRenderTarget ==
    RendererDrawn => (NonZero(physical) /\ pc # "panicked")

\* C24, what holds: a draw with a non-zero physical size never fails in
\* create_surface or resize (it reaches the viewport call), and a draw
\* with a zero dimension always panics before making the context current.
C24_ZeroSizePanics ==
    RendererDrawn =>
        /\ NonZero(physical) => Pos(trace, "gl_viewport") > 0
        /\ ~NonZero(physical) =>
               /\ pc = "panicked"
               /\ exitCode = 101
               /\ Pos(trace, "make_current") = 0
               /\ Pos(trace, "egl_resize") = 0
               /\ CommitsIn(trace) = 0

\* The first Configure has one zero dimension: create_surface asserts.
C24_ConfigureZeroDimension ==
    /\ RendererDrawn
    /\ nEvents = 1
    /\ lastEv.kind = "configure"
    /\ size.width = 0
    /\ size.height > 0
    /\ pc = "panicked"
    /\ ~sized.some

\* A Configure back to (0,0) with a sized renderer: resize unwraps None.
C24_ConfigureBackToZero ==
    /\ RendererDrawn
    /\ lastEv.kind = "configure"
    /\ size = DefaultSize
    /\ sized.some
    /\ NonZero(sized.size)
    /\ pc = "panicked"

\* A non-zero logical size whose product with the scale rounds to zero.
C24_ScaleRoundsToZero ==
    /\ RendererDrawn
    /\ NonZero(size)
    /\ ~NonZero(physical)
    /\ pc = "panicked"

\* A frame callback before any Configure draws the default size (0,0).
C24_FrameBeforeConfigure ==
    /\ RendererDrawn
    /\ nEvents = 1
    /\ lastEv.kind = "frame"
    /\ physical = DefaultSize
    /\ pc = "panicked"

\* C5, as claimed for every draw: once the renderer is Sized, a draw leaves
\* the stored size equal to the size it was called with.
C5_StoredSizeIsLast ==
    (RendererDrawn /\ sized.some) => sized.size = physical

\* A draw of a sized renderer with a zero dimension: the stored size is
\* still the one of the draw before.
C5_StoredSizeStale ==
    /\ RendererDrawn
    /\ sized.some
    /\ sized.size # physical
    /\ pc = "panicked"

\* C25: on the GPU path, after any handler that completed with a known
\* logical size, the renderer is Sized and its stored size is the logical
\* size multiplied by the scale factor, rounded; the size of the last
\* completed draw is that size too.
C25_WindowAndContextInSync ==
    (GpuPath /\ nEvents > 0 /\ pc # "panicked" /\ size # DefaultSize) =>
        /\ sized.some
        /\ sized.size = Mul(size, scale)
        /\ physical = Mul(size, scale)
        /\ NonZero(sized.size)

\* Size and scale both changed after the context was created, the last
\* handler resized it, and the process runs on.
C25_Witness ==
    /\ GpuPath
    /\ pc = "running"
    /\ nEvents >= 3
    /\ scale # ScaleUnit
    /\ size # DefaultSize
    /\ sized.some
    /\ sized.size # size
    /\ Count(trace, "egl_resize") = 1
    /\ lastEv.kind \in ScaleKinds

(***************************************************************************)
(* Properties of the dispatch loop after Closed (Spec)                     *)
(***************************************************************************)
\* The last handler ran after LayerShellHandler::closed had set terminated.
HandledAfterClosed == terminated /\ nEvents > 0 /\ lastEv.kind # "closed"

\* C26: once Closed has been handled, no later event, those of the same
\* dispatch batch included, performs a redraw or a surface commit.
C26_NoRedrawAfterClosed ==
    HandledAfterClosed => (DrawsIn(trace) = 0 /\ CommitsIn(trace) = 0)

\* C26, what holds: terminated is only read by the loop condition, so the
\* handlers of the batch still run, but after the blocking_dispatch call
\* that handled Closed has returned no handler runs any more.
C26_NoHandlerAfterBatch ==
    [][(terminated /\ ~inDispatch) => (~HandlerStep /\ trace' = trace)]_vars

\* A Configure of the same batch, handled after Closed, redrew and
\* committed.
C26_RedrawAfterClosed ==
    /\ HandledAfterClosed
    /\ inDispatch
    /\ lastEv.kind = "configure"
    /\ Redrawn
    /\ CommitsIn(trace) = 1

(***************************************************************************)
(* Properties of the unreachable branches (Spec)                           *)
(***************************************************************************)
\* The requests of Renderer::draw_texture_at.
TextureDrawOps == {"uniform_matrix", "uniform_position", "bind_texture",
                   "draw_arrays"}

\* C27: no unreachable!() executes in any event sequence. The texture is
\* drawn only inside the closure of Renderer::draw (after the viewport
\* call, before the flush) with the sized state present and the image
\* Loaded; a process that panicked did so in an assert or an unwrap, never
\* in an unreachable branch.
C27_UnreachableNeverReached ==
    /\ Count(trace, "unreachable") = 0
    /\ \A i \in 1..Len(trace) :
          trace[i] \in TextureDrawOps =>
              /\ sized.some
              /\ image = "Loaded"
              /\ \E j \in 1..(i - 1) : trace[j] = "gl_viewport"
              /\ \A j \in 1..(i - 1) : trace[j] \notin {"flush", "swap_buffers"}
    /\ (ImageConfigured /\ GpuPath /\ Redrawn) =>
           /\ image = "Loaded"
           /\ Count(trace, "draw_arrays") = 1

\* A later redraw with the image already Loaded: Image::texture skipped the
\* load, matched Loaded, and draw_texture_at found the sized state.
C27_Witness ==
    /\ GpuPath
    /\ Redrawn
    /\ pc = "running"
    /\ draws >= 2
    /\ image = "Loaded"
    /\ sized.some
    /\ Count(trace, "texture_new") = 0
    /\ Count(trace, "draw_arrays") = 1

====
